---- MODULE Spec2Model ----
(***************************************************************************)
(* Inventory audit tool: utils/file_handler.py (FileValidator),            *)
(* utils/data_processor.py (DataProcessor) and the Streamlit script app.py.*)
(*                                                                         *)
(* A DataFrame is [columns |-> set of column names, rows |-> sequence of   *)
(* rows].  A row is a function from the frame's columns to cells,          *)
(* restricted to ValueColumns: the columns whose cell values the code      *)
(* reads ('Stock Menu', 'Label No', 'Source', '_merge') plus 'Metal ID',   *)
(* which tells two stock rows with the same label apart.  The other        *)
(* columns are carried in `columns` only.  Cells are text; NaN is the      *)
(* null cell.                                                              *)
(***************************************************************************)
EXTENDS Integers, Sequences, FiniteSets, TLC

VARIABLES stock_file, barcode_file, label_file,
          session_state, validation_results,
          merge_results, compare_results, processing_results,
          cleaned, ui

vars == <<stock_file, barcode_file, label_file, session_state,
          validation_results, merge_results, compare_results,
          processing_results, cleaned, ui>>

(***************************************************************************)
(* Values                                                                  *)
(***************************************************************************)
\* Python None.
None == [none |-> TRUE]

\* A local that the last run of the script never assigned.
Unset == [unset |-> TRUE]

\* The null cell (numpy NaN / None in a column).
NaN == "<NaN>"

ValueColumns == {"Stock Menu", "Label No", "Metal ID", "Source", "_merge"}

\* The text cells the model orders, in Python's `<` order (code point by
\* code point, a prefix before its extensions), as sort_values compares
\* them.
StrOrder == <<"", " ", "A", "L1", "L10", "L2", "L3", "L4", "L5", "l1">>

\* Sort key of a cell: text by its place in StrOrder, NaN after every
\* value (na_position = 'last').  A text outside StrOrder has no key.
Rank(cell) ==
    IF cell = NaN THEN Len(StrOrder) + 1
    ELSE CHOOSE i \in 1..Len(StrOrder) : StrOrder[i] = cell

(***************************************************************************)
(* pandas operations used by the code                                      *)
(***************************************************************************)
DataFrame(cols, rows) == [columns |-> cols, rows |-> rows]

\* df.empty: some axis has length 0.
IsEmpty(df) == df.columns = {} \/ Len(df.rows) = 0

isna(cell) == cell = NaN

Column(df, col) == [i \in 1..Len(df.rows) |-> df.rows[i][col]]

\* df[mask]: the rows satisfying Test, in order.
Filter(df, Test(_)) == [df EXCEPT !.rows = SelectSeq(df.rows, Test)]

ProjectRow(r, cols) == [c \in (DOMAIN r) \cap cols |-> r[c]]

\* df[cols]
Project(df, cols) ==
    DataFrame(df.columns \cap cols,
              [i \in 1..Len(df.rows) |-> ProjectRow(df.rows[i], cols)])

\* df[col] = value
AssignColumn(df, col, value) ==
    DataFrame(df.columns \cup {col},
              [i \in 1..Len(df.rows) |->
                  [c \in (DOMAIN df.rows[i]) \cup {col} |->
                      IF c = col THEN value ELSE df.rows[i][c]]])

\* df.drop(columns=[col])
DropColumn(df, col) == Project(df, df.columns \ {col})

\* df.fillna('')
FillNa(df) ==
    [df EXCEPT !.rows =
        [i \in 1..Len(df.rows) |->
            [c \in DOMAIN df.rows[i] |->
                IF isna(df.rows[i][c]) THEN "" ELSE df.rows[i][c]]]]

\* pd.concat([a, b], ignore_index=True)
Concat(a, b) == DataFrame(a.columns \cup b.columns, a.rows \o b.rows)

\* Number of rows of df whose col equals value.
RECURSIVE CountRows(_, _, _)
CountRows(rows, col, value) ==
    IF rows = <<>> THEN 0
    ELSE (IF Head(rows)[col] = value THEN 1 ELSE 0)
         + CountRows(Tail(rows), col, value)

\* df.duplicated(subset=[col], keep=False), used as a row mask.
DuplicatedKeepFalse(df, col) ==
    [i \in 1..Len(df.rows) |->
        \E j \in 1..Len(df.rows) : j # i /\ df.rows[j][col] = df.rows[i][col]]

RECURSIVE MaskRows(_, _, _)
MaskRows(rows, mask, i) ==
    IF i > Len(rows) THEN <<>>
    ELSE (IF mask[i] THEN <<rows[i]>> ELSE <<>>) \o MaskRows(rows, mask, i + 1)

\* (the values with repeats kept)
UniqueKeepAll(s) == s

\* series.unique(): the distinct values in order of first appearance.
RECURSIVE Unique(_)
Unique(s) ==
    IF s = <<>> THEN <<>>
    ELSE LET front == Unique(SubSeq(s, 1, Len(s) - 1))
             last  == s[Len(s)]
         IN IF \E k \in 1..Len(front) : front[k] = last
            THEN front ELSE Append(front, last)

\* series.isin(values)
IsIn(cell, values) == \E k \in 1..Len(values) : values[k] = cell

\* (the frame with no row dropped)
DropDuplicatesKeepAll(df, col) == df

\* (the last occurrence kept instead of the first)
DropDuplicatesKeepLast(df, col) ==
    [df EXCEPT !.rows =
        MaskRows(df.rows,
                 [i \in 1..Len(df.rows) |->
                     ~ \E j \in (i + 1)..Len(df.rows) : df.rows[j][col] = df.rows[i][col]],
                 1)]

\* df.drop_duplicates(subset=[col], keep='first')

DropDuplicates(df, col) ==
    [df EXCEPT !.rows =
        MaskRows(df.rows,
                 [i \in 1..Len(df.rows) |->
                     ~ \E j \in 1..(i - 1) : df.rows[j][col] = df.rows[i][col]],
                 1)]

Swap(a, i, j) == [a EXCEPT ![i] = a[j], ![j] = a[i]]

\* numpy's argsort, kind 'quicksort', on an object array: a is the
\* permutation being sorted, keys[a[p]] the key at place p.  Partitions of
\* more than SmallQuicksort + 1 places are split around the median of
\* three, smaller ones are sorted by insertion, and a partition reached
\* below depth 0 is sorted by heapsort.
SmallQuicksort == 16

\* npy_get_msb
Msb(n) == CHOOSE d \in 0..30 : 2^d <= n /\ n \div 2 < 2^d

MedianOfThree(keys, a, pl, pm, pr) ==
    LET a1 == IF keys[a[pm]] < keys[a[pl]] THEN Swap(a, pm, pl) ELSE a
        a2 == IF keys[a1[pr]] < keys[a1[pm]] THEN Swap(a1, pr, pm) ELSE a1
    IN IF keys[a2[pm]] < keys[a2[pl]] THEN Swap(a2, pm, pl) ELSE a2

\* do ++pi while key < vp, from the place `from`
ScanUp(keys, a, vp, from) ==
    CHOOSE i \in from..Len(a) :
        /\ ~(keys[a[i]] < vp)
        /\ \A j \in from..(i - 1) : keys[a[j]] < vp

\* do --pj while vp < key, from the place `from`
ScanDown(keys, a, vp, from) ==
    CHOOSE i \in 1..from :
        /\ ~(vp < keys[a[i]])
        /\ \A j \in (i + 1)..from : vp < keys[a[j]]

RECURSIVE PartitionLoop(_, _, _, _, _)
PartitionLoop(keys, a, vp, pi, pj) ==
    LET i == ScanUp(keys, a, vp, pi + 1)
        j == ScanDown(keys, a, vp, pj - 1)
    IN IF i >= j THEN [a |-> a, pi |-> i]
       ELSE PartitionLoop(keys, Swap(a, i, j), vp, i, j)

Partition(keys, a, pl, pr) ==
    LET pm == pl + (pr - pl) \div 2
        m == MedianOfThree(keys, a, pl, pm, pr)
        h == PartitionLoop(keys, Swap(m, pm, pr - 1), keys[m[pm]], pl, pr - 1)
    IN [a |-> Swap(h.a, h.pi, pr - 1), pi |-> h.pi]

\* The insertion sort of the places pl..pr: an entry moves left past the
\* entries of greater key only, so entries of equal key keep their order.
InsertionSort(keys, a, pl, pr) ==
    LET Before(i) == {j \in pl..pr : \/ keys[a[j]] < keys[a[i]]
                                     \/ keys[a[j]] = keys[a[i]] /\ j < i}
    IN [p \in 1..Len(a) |->
           IF p \in pl..pr
           THEN a[CHOOSE i \in pl..pr : pl + Cardinality(Before(i)) = p]
           ELSE a[p]]

\* npy_aheapsort on the n places from lo; place i of the heap is a[lo+i-1].
RECURSIVE SiftDown(_, _, _, _, _, _, _)
SiftDown(keys, a, lo, n, tmp, i, j) ==
    IF j > n THEN [a EXCEPT ![lo + i - 1] = tmp]
    ELSE LET k == IF j < n /\ keys[a[lo + j - 1]] < keys[a[lo + j]] THEN j + 1 ELSE j
         IN IF keys[tmp] < keys[a[lo + k - 1]]
            THEN SiftDown(keys, [a EXCEPT ![lo + i - 1] = a[lo + k - 1]],
                          lo, n, tmp, k, 2 * k)
            ELSE [a EXCEPT ![lo + i - 1] = tmp]

RECURSIVE Heapify(_, _, _, _, _)
Heapify(keys, a, lo, n, l) ==
    IF l = 0 THEN a
    ELSE Heapify(keys, SiftDown(keys, a, lo, n, a[lo + l - 1], l, 2 * l), lo, n, l - 1)

RECURSIVE HeapExtract(_, _, _, _)
HeapExtract(keys, a, lo, n) ==
    IF n <= 1 THEN a
    ELSE HeapExtract(keys,
                     SiftDown(keys, [a EXCEPT ![lo + n - 1] = a[lo]], lo, n - 1,
                              a[lo + n - 1], 1, 2),
                     lo, n - 1)

HeapSort(keys, a, pl, pr) ==
    HeapExtract(keys, Heapify(keys, a, pl, pr - pl + 1, (pr - pl + 1) \div 2),
                pl, pr - pl + 1)

\* Introsort is the head of the outer loop, reached at the start and for
\* each partition taken from the stack; QuickLoop is the inner loop, which
\* goes on with the smaller part and stacks the larger one.
RECURSIVE Introsort(_, _, _, _, _)
RECURSIVE QuickLoop(_, _, _, _, _)
Introsort(keys, a, pl, pr, cdepth) ==
    IF cdepth < 0 THEN HeapSort(keys, a, pl, pr)
    ELSE QuickLoop(keys, a, pl, pr, cdepth)

QuickLoop(keys, a, pl, pr, cdepth) ==
    IF pr - pl > SmallQuicksort
    THEN LET p == Partition(keys, a, pl, pr)
         IN IF p.pi - pl < pr - p.pi
            THEN Introsort(keys, QuickLoop(keys, p.a, pl, p.pi - 1, cdepth - 1),
                           p.pi + 1, pr, cdepth - 1)
            ELSE Introsort(keys, QuickLoop(keys, p.a, p.pi + 1, pr, cdepth - 1),
                           pl, p.pi - 1, cdepth - 1)
    ELSE InsertionSort(keys, a, pl, pr)

argsort(keys) ==
    IF keys = <<>> THEN <<>>
    ELSE Introsort(keys, [i \in 1..Len(keys) |-> i], 1, Len(keys), 2 * Msb(Len(keys)))

\* pandas nargsort with na_position = 'last': the places of the values in
\* the order argsort gives them, then the places of the NaN cells.
nargsort(cells) ==
    LET idx == [i \in 1..Len(cells) |-> i]
        non_nan_idx == SelectSeq(idx, LAMBDA i : cells[i] # NaN)
        nan_idx == SelectSeq(idx, LAMBDA i : cells[i] = NaN)
        sorted == argsort([i \in 1..Len(non_nan_idx) |-> Rank(cells[non_nan_idx[i]])])
    IN [i \in 1..Len(non_nan_idx) |-> non_nan_idx[sorted[i]]] \o nan_idx

\* (the frame left in its given order)
SortValuesUnsorted(df, col) == df

\* df.sort_values(col), default kind='quicksort'.
SortValues(df, col) ==
    LET indexer == nargsort(Column(df, col))
    IN [df EXCEPT !.rows = [i \in 1..Len(df.rows) |-> df.rows[indexer[i]]]]

\* An exception raised by a call.
Raised(e) == [raised |-> e]
IsRaised(x) == "raised" \in DOMAIN x

\* Rows of `right` whose key equals the key of left row r (NaN keys match
\* NaN keys in a pandas merge).
Matches(r, right, col) == SelectSeq(right.rows, LAMBDA q : q[col] = r[col])

JoinRow(r, q) == [c \in (DOMAIN r) \cup (DOMAIN q) |-> IF c \in DOMAIN r THEN r[c] ELSE q[c]]

RECURSIVE InnerRows(_, _, _)
InnerRows(lrows, right, col) ==
    IF lrows = <<>> THEN <<>>
    ELSE LET m == Matches(Head(lrows), right, col)
         IN [k \in 1..Len(m) |-> JoinRow(Head(lrows), m[k])]
            \o InnerRows(Tail(lrows), right, col)

\* (every left row emitted once, matched or not)
MergeInnerKeepUnmatched(left, right, col) ==
    DataFrame(left.columns \cup right.columns, left.rows)

\* left.merge(right, on=col, how='inner'): one output row per matching
\* (left row, right row) pair, in left order.
MergeInner(left, right, col) ==
    DataFrame(left.columns \cup right.columns, InnerRows(left.rows, right, col))

IndicatorNames == {"_merge", "_left_indicator", "_right_indicator"}

RECURSIVE LeftRows(_, _, _)
LeftRows(lrows, right, col) ==
    IF lrows = <<>> THEN <<>>
    ELSE LET r == Head(lrows)
             m == Matches(r, right, col)
             tag(row, v) == [c \in (DOMAIN row) \cup {"_merge"} |->
                                IF c = "_merge" THEN v ELSE row[c]]
         IN (IF m = <<>> THEN <<tag(r, "left_only")>>
             ELSE [k \in 1..Len(m) |-> tag(JoinRow(r, m[k]), "both")])
            \o LeftRows(Tail(lrows), right, col)

\* left.merge(right, on=col, how='left', indicator=True).  pandas raises
\* ValueError when either frame already has a column named like the
\* indicator.
MergeLeftIndicator(left, right, col) ==
    IF (left.columns \cup right.columns) \cap IndicatorNames # {}
    THEN Raised("ValueError")
    ELSE DataFrame(left.columns \cup right.columns \cup {"_merge"},
                   LeftRows(left.rows, right, col))

(***************************************************************************)
(* utils/data_processor.py: DataProcessor                                  *)
(***************************************************************************)
columns_to_keep ==
    {"Label No", "Old BarCode No", "Item Name", "Gross Wt.", "Net Wt.",
     "Location", "Remark"}

\* (the filter on the empty string left out)
clean_report_file_keep_empty(df, report_name) ==
    LET found_items == Filter(df, LAMBDA r : r["Stock Menu"] = "Found")
        projected   == Project(found_items, columns_to_keep \cap found_items.columns)
    IN Filter(projected, LAMBDA r : ~isna(r["Label No"]))

clean_report_file(df, report_name) ==
    LET found_items == Filter(df, LAMBDA r : r["Stock Menu"] = "Found")
        available_cols == columns_to_keep \cap found_items.columns
        projected   == Project(found_items, available_cols)
        notna       == Filter(projected, LAMBDA r : ~isna(r["Label No"]))
    IN Filter(notna, LAMBDA r : r["Label No"] # "")

merge_audit_reports(barcode_df, label_df) ==
    LET barcode_clean == AssignColumn(clean_report_file(barcode_df, "Old Barcode Report"),
                                      "Source", "Old Barcode Report")
        label_clean   == AssignColumn(clean_report_file(label_df, "Label Number Report"),
                                      "Source", "Label Number Report")
        combined      == Concat(barcode_clean, label_clean)
        duplicate_labels ==
            Unique(Column([combined EXCEPT !.rows =
                              MaskRows(combined.rows,
                                       DuplicatedKeepFalse(combined, "Label No"), 1)],
                          "Label No"))
        duplicates_df == Filter(combined, LAMBDA r : IsIn(r["Label No"], duplicate_labels))
        unique_items  == DropDuplicates(combined, "Label No")
    IN [combined_all   |-> combined,
        unique_items   |-> unique_items,
        duplicates     |-> SortValues(duplicates_df, "Label No"),
        num_duplicates |-> Len(duplicate_labels),
        total_scanned  |-> Len(combined.rows),
        unique_count   |-> Len(unique_items.rows)]

\* (found_report, missing_report, comparison_stats), or the exception.
compare_with_stock(stock_df, unique_items_df, total_scanned) ==
    LET right        == Project(unique_items_df, {"Label No"})
        found_report == MergeInner(stock_df, right, "Label No")
        comparison   == MergeLeftIndicator(stock_df, right, "Label No")
    IN IF IsRaised(comparison) THEN comparison
       ELSE LET missing_report ==
                    DropColumn(Filter(comparison, LAMBDA r : r["_merge"] = "left_only"),
                               "_merge")
                total_stock == Len(stock_df.rows)
            IN [found_report   |-> found_report,
                missing_report |-> missing_report,
                comparison_stats |->
                    [total_stock      |-> total_stock,
                     total_scanned    |-> total_scanned,
                     found_in_stock   |-> Len(found_report.rows),
                     missing          |-> Len(missing_report.rows),
                     expected_missing |-> total_stock - total_scanned]]

display_columns ==
    {"Label No", "Item Name", "Metal ID", "Gross Wt.", "Net Wt.", "Pcs",
     "Location", "Old BarCode No", "Remark", "Voucher Date"}

prepare_display_dataframe(df) == FillNa(Project(df, display_columns \cap df.columns))

dup_display_cols == {"Label No", "Item Name", "Location", "Source"}

\* Binary floating point as Python's float has it.  A number is m * 2^(-e);
\* m is a natural number of Precision bits at most once rounded, written
\* as its digits to the base Limb, most significant first.
Precision == 53

Limb == 1024

LimbBits == 10

\* Digits of the quotient kept after the point before it is rounded.
FractionLimbs == 8

RECURSIVE Norm(_)
Norm(b) == IF b # <<>> /\ b[1] = 0 THEN Norm(Tail(b)) ELSE b

RECURSIVE FromInt(_)
FromInt(n) == IF n = 0 THEN <<>> ELSE Append(FromInt(n \div Limb), n % Limb)

RECURSIVE ToInt(_)
ToInt(b) == IF b = <<>> THEN 0 ELSE Limb * ToInt(SubSeq(b, 1, Len(b) - 1)) + b[Len(b)]

Front(b) == SubSeq(b, 1, Len(b) - 1)

\* b * k + carry, for k <= Limb.
RECURSIVE MulSmall(_, _, _)
MulSmall(b, k, carry) ==
    IF b = <<>> THEN FromInt(carry)
    ELSE LET v == b[Len(b)] * k + carry
         IN Append(MulSmall(Front(b), k, v \div Limb), v % Limb)

\* Quotient digits and remainder of (r * Limb^Len(b) + b) / k, for k <= Limb.
RECURSIVE DivDigits(_, _, _)
DivDigits(b, k, r) ==
    IF b = <<>> THEN [q |-> <<>>, r |-> r]
    ELSE LET v == r * Limb + b[1]
             rest == DivDigits(Tail(b), k, v % k)
         IN [q |-> <<v \div k>> \o rest.q, r |-> rest.r]

DivSmall(b, k) == LET d == DivDigits(b, k, 0) IN [q |-> Norm(d.q), r |-> d.r]

Pow2(n) == 2^n

BitLen(b) ==
    IF b = <<>> THEN 0
    ELSE LimbBits * (Len(b) - 1)
         + (CHOOSE k \in 1..LimbBits : Pow2(k - 1) <= b[1] /\ b[1] < Pow2(k))

Odd(b) == b # <<>> /\ b[Len(b)] % 2 = 1

AnyDigit(b) == \E i \in 1..Len(b) : b[i] # 0

RECURSIVE Incr(_)
Incr(b) ==
    IF b = <<>> THEN <<1>>
    ELSE IF b[Len(b)] < Limb - 1 THEN [b EXCEPT ![Len(b)] = @ + 1]
    ELSE Append(Incr(Front(b)), 0)

\* b \div 2^n, and whether a 1 bit was dropped.
ShiftRight(b, n) ==
    LET a == IF n \div LimbBits < Len(b) THEN n \div LimbBits ELSE Len(b)
        d == DivSmall(SubSeq(b, 1, Len(b) - a), Pow2(n % LimbBits))
    IN [q |-> d.q,
        sticky |-> AnyDigit(SubSeq(b, Len(b) - a + 1, Len(b))) \/ d.r # 0]

\* b / 2^d to the nearest natural number, ties to even; rest tells that
\* the exact number is a little above b.
RoundShift(b, d, rest) ==
    IF d = 0 THEN b
    ELSE LET s == ShiftRight(b, d - 1)
             kept == DivSmall(s.q, 2).q
         IN IF Odd(s.q) /\ (s.sticky \/ rest \/ Odd(kept))
            THEN Incr(kept) ELSE kept

\* The float nearest to b * 2^(-e).
ToFloat(b, e, rest) ==
    LET d == IF BitLen(b) > Precision THEN BitLen(b) - Precision ELSE 0
    IN [m |-> RoundShift(b, d, rest), e |-> e - d]

\* n digits of r / t after the point, and the remainder left.
RECURSIVE FractionDigits(_, _, _)
FractionDigits(r, t, n) ==
    IF n = 0 THEN [q |-> <<>>, r |-> r]
    ELSE LET v == r * Limb
             rest == FractionDigits(v % t, t, n - 1)
         IN [q |-> <<v \div t>> \o rest.q, r |-> rest.r]

\* The float found / total (total below 2^21).
FloatDiv(found, total) ==
    LET d == FractionDigits(found % total, total, FractionLimbs)
    IN ToFloat(Norm(FromInt(found \div total) \o d.q),
               LimbBits * FractionLimbs, d.r # 0)

\* The float x * 100.
FloatMul100(x) == ToFloat(MulSmall(x.m, 100, 0), x.e, FALSE)

\* round(x, 2) in hundredths: the float's exact value to the nearest
\* hundredth, ties to even.
Round2(x) == ToInt(RoundShift(MulSmall(x.m, 100, 0), x.e, FALSE))

\* round((found / total) * 100, 2) if total > 0 else 0, in hundredths of a
\* percent.
found_percentage(found_in_stock, total_stock) ==
    IF total_stock > 0
    THEN Round2(FloatMul100(FloatDiv(found_in_stock, total_stock)))
    ELSE 0

\* process_audit_data once merge_audit_reports has returned m: the locals
\* and the return value (the result bundle, or None after an exception).
process_audit_data(stock_df, m) ==
    LET cmp == compare_with_stock(stock_df, m.unique_items, m.total_scanned)
    IN IF IsRaised(cmp)
       THEN [compare |-> None, results |-> None,
             errors |-> <<"Error processing audit data", "traceback">>]
       ELSE [compare |-> cmp,
             errors |-> <<>>,
             results |->
               [merged_found_items |-> m.unique_items,
                duplicates         |-> m.duplicates,
                num_duplicates     |-> m.num_duplicates,
                found_items        |-> prepare_display_dataframe(cmp.found_report),
                missing_items      |-> prepare_display_dataframe(cmp.missing_report),
                duplicates_display |->
                    IF ~IsEmpty(m.duplicates)
                    THEN FillNa(Project(m.duplicates,
                                        dup_display_cols \cap m.duplicates.columns))
                    ELSE DataFrame({}, <<>>),
                stats |->
                    [total_stock      |-> cmp.comparison_stats.total_stock,
                     total_scanned    |-> cmp.comparison_stats.total_scanned,
                     unique_found     |-> m.unique_count,
                     found_in_stock   |-> cmp.comparison_stats.found_in_stock,
                     missing          |-> cmp.comparison_stats.missing,
                     num_duplicates   |-> m.num_duplicates,
                     found_percentage |->
                         found_percentage(cmp.comparison_stats.found_in_stock,
                                          cmp.comparison_stats.total_stock)]]]

(***************************************************************************)
(* utils/file_handler.py: FileValidator                                    *)
(***************************************************************************)
\* An uploaded file: whether pd.read_excel can parse it, and the sheet it
\* holds.
File(readable, sheet) == [readable |-> readable, sheet |-> sheet]

read_excel_file(uploaded_file) ==
    IF uploaded_file.readable THEN uploaded_file.sheet ELSE None

\* A validator's (is_valid, error_message); the message is its text and
\* the column names formatted into it.
Verdict(is_valid, text, cols) ==
    [is_valid |-> is_valid, message |-> [text |-> text, cols |-> cols]]

stock_required_cols ==
    <<"Item Name", "Metal ID", "Gross Wt.", "Net Wt.", "Pcs", "Location",
      "Old BarCode No", "Voucher Date">>

report_required_cols == <<"Stock Menu", "Label No", "Item Name", "Location">>

MissingCols(required, df) == SelectSeq(required, LAMBDA c : c \notin df.columns)

\* series.isna().all()
AllNa(df, col) == \A i \in 1..Len(df.rows) : isna(df.rows[i][col])

validate_stock_file(df) ==
    IF df = None \/ IsEmpty(df)
    THEN Verdict(FALSE, "File is empty or could not be read", <<>>)
    ELSE IF "Label No" \notin df.columns
    THEN Verdict(FALSE, "Missing required column: 'Label No'", <<>>)
    ELSE IF MissingCols(stock_required_cols, df) # <<>>
    THEN Verdict(FALSE, "Missing required columns", MissingCols(stock_required_cols, df))
    ELSE IF AllNa(df, "Label No")
    THEN Verdict(FALSE, "Label No column has no values", <<>>)
    ELSE Verdict(TRUE, "Stock file validation passed", <<>>)

validate_report_file(df) ==
    IF df = None \/ IsEmpty(df)
    THEN Verdict(FALSE, "File is empty or could not be read", <<>>)
    ELSE IF MissingCols(report_required_cols, df) # <<>>
    THEN Verdict(FALSE, "Missing required columns", MissingCols(report_required_cols, df))
    ELSE IF "Stock Menu" \in df.columns
            /\ IsEmpty(Filter(df, LAMBDA r : r["Stock Menu"] = "Found"))
    THEN Verdict(FALSE, "No 'Found' items in Stock Menu column", <<>>)
    ELSE IF AllNa(df, "Label No")
    THEN Verdict(FALSE, "Label No column has no values", <<>>)
    ELSE Verdict(TRUE, "Report file validation passed", <<>>)

\* One element the script puts on the page.
Widget(widget, body) == [widget |-> widget, body |-> body]

\* A call of st.* whose element the page model does not keep (a divider,
\* a heading, a success or info line, a metric, a spinner appearing or
\* going): the script can be stopped there like at any other call.
Untracked == Widget("untracked", "")

Others(n) == [i \in 1..n |-> Untracked]

Tracked(draws) == SelectSeq(draws, LAMBDA w : w # Untracked)

\* (the table stored whether or not it passed its validator)
LoadOneKeepInvalid(df, verdict, prefix) ==
    IF df = None
    THEN [df |-> None, errors |-> <<>>,
          ui |-> <<Widget("error", "Error reading file")>>]
    ELSE [df |-> df,
          errors |-> IF verdict.is_valid THEN <<>>
                     ELSE <<[prefix |-> prefix, message |-> verdict.message]>>,
          ui |-> IF verdict.is_valid THEN <<>> ELSE <<Widget("error", prefix)>>]

\* One of the three load blocks of load_and_validate_files, given what
\* read_excel_file returned and the validator's verdict on it: the table
\* stored in results (None when it is not stored), the entries appended to
\* results['errors'] and the st.error calls.
LoadOne(df, verdict, prefix) ==
    IF df = None
    THEN [df |-> None, errors |-> <<>>,
          ui |-> <<Widget("error", "Error reading file")>>]
    ELSE IF verdict.is_valid
    THEN [df |-> df, errors |-> <<>>, ui |-> <<>>]
    ELSE [df |-> None,
          errors |-> <<[prefix |-> prefix, message |-> verdict.message]>>,
          ui |-> <<Widget("error", prefix)>>]

\* (success as soon as one table was stored)
AllLoadedAny(stock_df, barcode_df, label_df) ==
    stock_df # None \/ barcode_df # None \/ label_df # None

\* all([... is not None, ...])
AllLoaded(stock_df, barcode_df, label_df) ==
    stock_df # None /\ barcode_df # None /\ label_df # None

\* The st calls of one load block, in order: the spinner appears, then
\* st.error in read_excel_file, or st.success or st.error after the
\* validator, then the spinner goes.
LoadCalls(one) ==
    Others(1) \o (IF one.ui = <<>> THEN Others(1) ELSE one.ui) \o Others(1)

load_and_validate_files(stock, barcode, label) ==
    LET stock_df   == read_excel_file(stock)
        barcode_df == read_excel_file(barcode)
        label_df   == read_excel_file(label)
        s == LoadOne(stock_df, validate_stock_file(stock_df), "Stock file error")
        b == LoadOne(barcode_df, validate_report_file(barcode_df), "Barcode report error")
        l == LoadOne(label_df, validate_report_file(label_df), "Label report error")
    IN [results |->
           [success    |-> AllLoaded(s.df, b.df, l.df),
            stock_df   |-> s.df,
            barcode_df |-> b.df,
            label_df   |-> l.df,
            errors     |-> s.errors \o b.errors \o l.errors],
        ui |-> s.ui \o b.ui \o l.ui,
        calls |-> LoadCalls(s) \o LoadCalls(b) \o LoadCalls(l)]

(***************************************************************************)
(* app.py: the script, run once per user interaction                       *)
(***************************************************************************)
ResultKeys == {"stock_df", "barcode_df", "label_df", "processing_results",
               "processing_complete"}

\* What st.session_state keeps of a stored object: its type (the script
\* never reads a stored table or bundle back), or the flag itself.
Stored(x) == IF x = None THEN "NoneType"
             ELSE IF "columns" \in DOMAIN x THEN "DataFrame" ELSE "dict"

SessionSet(session, key, value) ==
    [k \in (DOMAIN session) \cup {key} |-> IF k = key THEN value ELSE session[k]]

SessionDelete(session, keys) == [k \in (DOMAIN session) \ keys |-> session[k]]

processing_complete(session) ==
    "processing_complete" \in DOMAIN session /\ session["processing_complete"]

\* Lines 229-236: the clear button is offered once a run was recorded as
\* complete.
ClearButton(session) ==
    IF processing_complete(session)
    THEN <<Widget("button", "Clear Results and Upload New Files")>>
    ELSE <<>>

\* A widget whose text holds a count.
Counted(widget, body, count) == [widget |-> widget, body |-> body, count |-> count]

\* Lines 92, 99, 216: the Process button when the three uploaders hold a
\* file, the warning otherwise.
PageHead(stock, barcode, label) ==
    IF stock # None /\ barcode # None /\ label # None
    THEN <<Widget("button", "Process Audit Reports")>>
    ELSE <<Widget("warning", "Please upload all three files to proceed")>>

\* data_processor.py line 75: the warning of merge_audit_reports, whatever
\* the count.
merge_audit_reports_warnings(m) ==
    <<Counted("warning", "Found duplicate items scanned in both reports",
              m.num_duplicates)>>

\* data_processor.py line 137: the warning of compare_with_stock, reached
\* when no exception was raised before it.
compare_with_stock_warnings(cmp) ==
    IF cmp = None \/ IsRaised(cmp) THEN <<>>
    ELSE <<Counted("warning", "Missing items", cmp.comparison_stats.missing)>>

\* Lines 152-205: the st calls that show the reports and offer them for
\* download, in order.
ReportCalls(results) ==
    (IF results.stats.num_duplicates > 0
     THEN Others(2)                                          \* 154, 155
          \o <<Counted("warning", "These items were scanned in BOTH reports",
                       results.stats.num_duplicates),        \* 156
               Widget("dataframe", "duplicates_display"),    \* 157
               Widget("download_button", "duplicate_items_report.csv")>>
     ELSE <<>>)
    \o Others(2)                                             \* 173, 174
    \o <<Widget("dataframe", "found_items"),                 \* 175
         Widget("download_button", "found_items_report.csv")>>
    \o Others(2)                                             \* 190, 191
    \o <<Widget("dataframe", "missing_items"),               \* 192
         Widget("download_button", "missing_items_report.csv")>>

\* The reports shown and offered for download.
ShowReports(results) == Tracked(ReportCalls(results))

ErrorWidgets(texts) == [i \in 1..Len(texts) |-> Widget("error", texts[i])]

\* A run of the script in which no button was clicked.
Rerun(session) ==
    /\ session_state' = session
    /\ validation_results' = Unset
    /\ merge_results' = Unset
    /\ compare_results' = Unset
    /\ processing_results' = Unset
    /\ ui' = PageHead(stock_file', barcode_file', label_file') \o ClearButton(session)

SetSlot(slot, file) ==
    /\ stock_file'   = IF slot = "stock" THEN file ELSE stock_file
    /\ barcode_file' = IF slot = "barcode" THEN file ELSE barcode_file
    /\ label_file'   = IF slot = "label" THEN file ELSE label_file

Slot(slot) == CASE slot = "stock" -> stock_file
                [] slot = "barcode" -> barcode_file
                [] slot = "label" -> label_file

\* Lines 56-87: the user puts a file into an uploader, empty or filled.
Upload(slot, file) ==
    /\ SetSlot(slot, file)
    /\ Rerun(session_state)
    /\ UNCHANGED cleaned

\* The user removes the file of an uploader.
Remove(slot) ==
    /\ Slot(slot) # None
    /\ SetSlot(slot, None)
    /\ Rerun(session_state)
    /\ UNCHANGED cleaned

\* The objects a run of the script holds at one point: the locals of
\* app.py and of process_audit_data, and st.session_state.
RunState(v, m, c, p, session) ==
    [validation_results |-> v, merge_results |-> m, compare_results |-> c,
     processing_results |-> p, session_state |-> session]

\* Consecutive st calls with no assignment between them: each call with
\* the objects held when it is made and the element it draws.
Calls(state, draws) ==
    [i \in 1..Len(draws) |-> [before |-> state, draw |-> draws[i]]]

\* Lines 113-115.
StoreTables(session, res) ==
    SessionSet(SessionSet(SessionSet(session,
        "stock_df", Stored(res.stock_df)),
        "barcode_df", Stored(res.barcode_df)),
        "label_df", Stored(res.label_df))

\* Lines 128-129.
StoreResults(session, results) ==
    SessionSet(SessionSet(session,
        "processing_results", Stored(results)),
        "processing_complete", TRUE)

\* Lines 99-240 in a run in which the Process button was clicked: the st
\* calls of the run in order, the last entry being the end of the script.
\* v is what load_and_validate_files returned and drew; after a success m
\* is what merge_audit_reports returned and p what process_audit_data
\* did with it.
ProcessRun(session, v, m, p) ==
    LET res == v.results
        \* 99, and the calls of file_handler.py 113-146
        loading == Calls(RunState(Unset, Unset, Unset, Unset, session),
                         PageHead(stock_file, barcode_file, label_file) \o v.calls)
    IN IF res.success
       THEN LET tables == StoreTables(session, res)
                stored == StoreResults(tables, p.results)
            IN loading
               \* 110
               \o Calls(RunState(res, Unset, Unset, Unset, session), Others(1))
               \* 117, 120; data_processor.py 187, 37, 37, 64, 75, 76
               \o Calls(RunState(res, Unset, Unset, Unset, tables),
                        Others(6) \o merge_audit_reports_warnings(m) \o Others(1))
               \* data_processor.py 195, then 136-139 unless line 113 raised
               \o Calls(RunState(res, m, Unset, Unset, tables),
                        Others(1)
                        \o (IF p.compare = None THEN <<>>
                            ELSE Others(1) \o compare_with_stock_warnings(p.compare)
                                 \o Others(2)))
               \* data_processor.py 229, 231
               \o (IF p.compare = None
                   THEN Calls(RunState(res, m, None, Unset, tables),
                              ErrorWidgets(p.errors))
                   ELSE <<>>)
               \* 120: the spinner goes
               \o Calls(RunState(res, m, p.compare, p.results, tables), Others(1))
               \o Calls(RunState(res, m, p.compare, p.results, stored),
                        \* 131, 134
                        Others(2)
                        \o (IF p.results = None
                            \* 135: processing_results['stats'] on None ends
                            \* the run
                            THEN <<Widget("exception", "TypeError")>>
                            \* 137-150, 152-205, 207, 230, 239, 240
                            ELSE Others(7) \o ReportCalls(p.results) \o Others(1)
                                 \o ClearButton(stored) \o Others(2))
                        \o Others(1))
       ELSE loading
            \o Calls(RunState(res, Unset, Unset, Unset, session),
                     \* 210, 212, 214, 230, 239, 240
                     <<Widget("error", "File validation failed")>>
                     \o (IF res.errors # <<>> THEN Others(1) ELSE <<>>)
                     \o [i \in 1..Len(res.errors) |->
                            Widget("warning", res.errors[i].prefix)]
                     \o ClearButton(session) \o Others(2)
                     \o Others(1))

\* Lines 99-240: the 'Process Audit Reports' button, offered when all
\* three files are uploaded, is clicked.  The run goes to the end of the
\* script (k = Len(run)) or is stopped at one of its st calls after the
\* button, when the user acts on the page meanwhile: the objects are those
\* held at that call and the page holds what the calls before it drew.
ClickProcess ==
    /\ stock_file # None /\ barcode_file # None /\ label_file # None
    /\ \E v \in {load_and_validate_files(stock_file, barcode_file, label_file)} :
       \E m \in {IF v.results.success
                  THEN merge_audit_reports(v.results.barcode_df, v.results.label_df)
                  ELSE Unset} :
       \E p \in {IF v.results.success
                  THEN process_audit_data(v.results.stock_df, m)
                  ELSE Unset} :
       \E run \in {ProcessRun(session_state, v, m, p)} :
       \E k \in 2..Len(run) :
          /\ validation_results' = run[k].before.validation_results
          /\ merge_results' = run[k].before.merge_results
          /\ compare_results' = run[k].before.compare_results
          /\ processing_results' = run[k].before.processing_results
          /\ session_state' = run[k].before.session_state
          /\ ui' = Tracked([i \in 1..(k - 1) |-> run[i].draw])
    /\ UNCHANGED <<stock_file, barcode_file, label_file, cleaned>>

\* Lines 165, 183, 200: a click on one of the download buttons runs the
\* script again; no st.button returns True in that run.
ClickDownload ==
    /\ \E i \in 1..Len(ui) : ui[i].widget = "download_button"
    /\ UNCHANGED <<stock_file, barcode_file, label_file, cleaned>>
    /\ Rerun(session_state)

\* Lines 231-236: the clear button deletes the stored keys and reruns the
\* script.
ClickClear ==
    /\ \E i \in 1..Len(ui) : ui[i] = Widget("button", "Clear Results and Upload New Files")
    /\ UNCHANGED <<stock_file, barcode_file, label_file, cleaned>>
    /\ Rerun(SessionDelete(session_state, ResultKeys))

(***************************************************************************)
(* Inputs                                                                  *)
(***************************************************************************)
MaxStockFileRows == 1
MaxBarcodeFileRows == 2
MaxLabelFileRows == 1
MaxStockRows == 2
MaxScanRows == 3
MaxMergeRows == 4
MaxCleanRows == 3

StockColumns == {"Label No"} \cup {stock_required_cols[i] : i \in 1..Len(stock_required_cols)}
ReportColumns == {report_required_cols[i] : i \in 1..Len(report_required_cols)}

\* The rows a frame with these columns can hold, cell by cell.
RowsOver(cols, menus, labels, metals) ==
    {r \in [cols \cap ValueColumns -> menus \cup labels \cup metals \cup {NaN}] :
        /\ "_merge" \in DOMAIN r => r["_merge"] = NaN
        /\ "Stock Menu" \in DOMAIN r => r["Stock Menu"] \in menus
        /\ "Label No" \in DOMAIN r => r["Label No"] \in labels
        /\ "Metal ID" \in DOMAIN r => r["Metal ID"] \in metals}

Frames(colsets, menus, labels, metals, lens) ==
    UNION {{DataFrame(cols, rows) :
               rows \in UNION {[1..k -> RowsOver(cols, menus, labels, metals)] : k \in lens}} :
           cols \in colsets}

Unreadable == File(FALSE, None)

\* The files offered to the uploaders of the running application.
AppStockFiles ==
    {Unreadable} \cup
    {File(TRUE, df) :
        df \in Frames({StockColumns, StockColumns \cup {"_merge"}},
                      {}, {NaN, "L1"}, {"Au"}, 0..MaxStockFileRows)
               \cup Frames({StockColumns \ {"Pcs", "Voucher Date"}},
                           {}, {"L1"}, {"Au"}, 1..1)}

\* Report sheets: rows found with or without a label, and labelled rows
\* not found.
AppReportFiles(maxrows) ==
    {Unreadable} \cup
    {File(TRUE, df) :
        df \in {f \in Frames({ReportColumns}, {"Found", "Missing"}, {NaN, "L1"}, {},
                             0..maxrows) :
                   \A i \in 1..Len(f.rows) :
                       f.rows[i]["Stock Menu"] = "Found" \/ f.rows[i]["Label No"] # NaN}
               \cup Frames({ReportColumns \ {"Location"}}, {"Found"}, {"L1"}, {},
                           1..1)}

Init ==
    /\ stock_file = None
    /\ barcode_file = None
    /\ label_file = None
    /\ session_state = <<>>
    /\ validation_results = Unset
    /\ merge_results = Unset
    /\ compare_results = Unset
    /\ processing_results = Unset
    /\ cleaned = Unset
    /\ ui = PageHead(stock_file, barcode_file, label_file) \o ClearButton(session_state)

Next ==
    \/ \E f \in AppStockFiles : Upload("stock", f)
    \/ \E f \in AppReportFiles(MaxBarcodeFileRows) : Upload("barcode", f)
    \/ \E f \in AppReportFiles(MaxLabelFileRows) : Upload("label", f)
    \/ \E slot \in {"stock", "barcode", "label"} : Remove(slot)
    \/ ClickProcess
    \/ ClickDownload
    \/ ClickClear

Spec == Init /\ [][Next]_vars

(***************************************************************************)
(* The functions of DataProcessor on their own                             *)
(***************************************************************************)
\* The rows of the tables handed to the functions.
StockRowSet == RowsOver(StockColumns, {}, {NaN, "L1", "L2"}, {"Au", "Ag"})

ReportRowSet == RowsOver(ReportColumns, {"Found", "Missing"}, {NaN, "", "L1", "L2"}, {})

PipelineRowSet == RowsOver(ReportColumns, {"Found", "Missing"}, {NaN, "L1", "L2"}, {})

CleanColumnSets == {ReportColumns, ReportColumns \cup {"Metal ID"}}

CleanRowSet(cols) ==
    RowsOver(cols, {"Found", "found", "Found ", NaN}, {NaN, "", "L1", " "}, {"Au"})

Idle ==
    /\ session_state = <<>>
    /\ validation_results = Unset
    /\ merge_results = Unset
    /\ compare_results = Unset
    /\ processing_results = Unset
    /\ cleaned = Unset
    /\ ui = <<>>

\* Line 54: clean_report_file on the barcode report.
CleanReportFile ==
    /\ barcode_file # None /\ cleaned = Unset
    /\ cleaned' = clean_report_file(barcode_file.sheet, "Old Barcode Report")
    /\ UNCHANGED <<stock_file, barcode_file, label_file, session_state,
                   validation_results, merge_results, compare_results,
                   processing_results, ui>>

\* Line 188: merge_audit_reports on the two reports.
MergeAuditReports ==
    /\ merge_results = Unset
    /\ merge_results' = merge_audit_reports(barcode_file.sheet, label_file.sheet)
    /\ ui' = ui \o merge_audit_reports_warnings(merge_results')
    /\ UNCHANGED <<stock_file, barcode_file, label_file, session_state,
                   validation_results, compare_results, processing_results,
                   cleaned>>

\* Lines 196-200: compare_with_stock on the stock table and the merge.
CompareWithStock ==
    /\ merge_results # Unset /\ compare_results = Unset
    /\ compare_results' = compare_with_stock(stock_file.sheet,
                                             merge_results.unique_items,
                                             merge_results.total_scanned)
    /\ ui' = ui \o compare_with_stock_warnings(compare_results')
    /\ UNCHANGED <<stock_file, barcode_file, label_file, session_state,
                   validation_results, merge_results, processing_results,
                   cleaned>>

InitClean ==
    /\ stock_file = None /\ label_file = None
    /\ \E cols \in CleanColumnSets : \E k \in 0..MaxCleanRows :
         \E rows \in [1..k -> CleanRowSet(cols)] :
            barcode_file = File(TRUE, DataFrame(cols, rows))
    /\ Idle

NextClean == CleanReportFile

SpecClean == InitClean /\ [][NextClean]_vars

\* Two report tables of `total` rows at most together, as
\* process_audit_data receives them: both passed validation.
ReportPair(total, rowset) ==
    \E kb \in 1..(total - 1) : \E kl \in 1..(total - kb) :
      \E b \in [1..kb -> rowset] : \E l \in [1..kl -> rowset] :
        /\ validate_report_file(DataFrame(ReportColumns, b)).is_valid
        /\ validate_report_file(DataFrame(ReportColumns, l)).is_valid
        /\ barcode_file = File(TRUE, DataFrame(ReportColumns, b))
        /\ label_file = File(TRUE, DataFrame(ReportColumns, l))

InitMerge ==
    /\ stock_file = None
    /\ ReportPair(MaxMergeRows, ReportRowSet)
    /\ Idle

NextMerge == MergeAuditReports

SpecMerge == InitMerge /\ [][NextMerge]_vars

\* Reports long enough for sort_values to partition the duplicates table:
\* every row found, labelled L1 but for one row at most in each report.
MaxSortRows == 18

SortReports(k) ==
    {[i \in 1..k |->
         [c \in ReportColumns \cap ValueColumns |->
             IF c = "Stock Menu" THEN "Found" ELSE IF i = p THEN "L2" ELSE "L1"]] :
     p \in 0..k}

InitSort ==
    /\ stock_file = None
    /\ \E kb \in 1..(MaxSortRows - 1) : \E kl \in 1..(MaxSortRows - kb) :
         \E b \in SortReports(kb) : \E l \in SortReports(kl) :
            /\ barcode_file = File(TRUE, DataFrame(ReportColumns, b))
            /\ label_file = File(TRUE, DataFrame(ReportColumns, l))
    /\ Idle

NextSort == MergeAuditReports

SpecSort == InitSort /\ [][NextSort]_vars

InitPipeline ==
    /\ \E k \in 1..MaxStockRows : \E rows \in [1..k -> StockRowSet] :
         /\ validate_stock_file(DataFrame(StockColumns, rows)).is_valid
         /\ stock_file = File(TRUE, DataFrame(StockColumns, rows))
    /\ ReportPair(MaxScanRows, PipelineRowSet)
    /\ Idle

NextPipeline == MergeAuditReports \/ CompareWithStock

SpecPipeline == InitPipeline /\ [][NextPipeline]_vars

(***************************************************************************)
(* load_and_validate_files on its own, over tables that lack columns       *)
(***************************************************************************)
MaxValidateRows == 1

\* The required columns a table handed to the validators may lack.
StockDropped == {"Label No", "Item Name", "Pcs"}

ReportDropped == {"Stock Menu", "Label No", "Item Name", "Location"}

\* file is a readable sheet holding every column but those of one subset
\* of dropped.
FileLacking(file, columns, dropped, menus) ==
    \E lacking \in SUBSET dropped :
        \E k \in 0..MaxValidateRows :
            \E rows \in [1..k -> RowsOver(columns \ lacking, menus, {NaN, "L1"}, {"Au"})] :
                file = File(TRUE, DataFrame(columns \ lacking, rows))

InitValidate ==
    /\ FileLacking(stock_file, StockColumns, StockDropped, {})
    /\ FileLacking(barcode_file, ReportColumns, ReportDropped, {"Found"})
    /\ FileLacking(label_file, ReportColumns, ReportDropped, {"Found"})
    /\ session_state = <<>>
    /\ validation_results = Unset
    /\ merge_results = Unset
    /\ compare_results = Unset
    /\ processing_results = Unset
    /\ cleaned = Unset
    /\ ui = <<>>

\* One call of load_and_validate_files on the three files.
LoadAndValidateFiles ==
    /\ validation_results = Unset
    /\ LET loaded == load_and_validate_files(stock_file, barcode_file, label_file)
       IN /\ validation_results' = loaded.results
          /\ ui' = loaded.ui
    /\ UNCHANGED <<stock_file, barcode_file, label_file, session_state,
                   merge_results, compare_results, processing_results, cleaned>>

NextValidate == LoadAndValidateFiles

SpecValidate == InitValidate /\ [][NextValidate]_vars

(***************************************************************************)
(* Properties                                                              *)
(***************************************************************************)
Labels(rows) == {rows[i]["Label No"] : i \in 1..Len(rows)}

Compared == compare_results # Unset /\ compare_results # None

StockRows == stock_file.sheet.rows

\* C1: after merge_audit_reports and compare_with_stock, the rows of the
\* found report and the rows of the missing report add up to the rows of
\* stock.
C1_ReportsPartitionStock ==
    Compared =>
        Len(compare_results.found_report.rows)
        + Len(compare_results.missing_report.rows) = Len(StockRows)

\* C1 case: stock repeats a label that was found, the scans hold a
\* duplicate label and a label that stock does not have.
C1_Witness ==
    /\ Compared
    /\ \E i, j \in 1..Len(StockRows) :
          /\ i < j
          /\ StockRows[i]["Label No"] = StockRows[j]["Label No"]
          /\ StockRows[i]["Label No"] \in Labels(merge_results.unique_items.rows)
    /\ merge_results.num_duplicates > 0
    /\ Labels(merge_results.unique_items.rows) \ Labels(StockRows) # {}

\* C2: the found report is the stock rows whose label is among the unique
\* found labels (each once, in stock order), the missing report is the
\* other stock rows.
C2_FoundAndMissingRows ==
    Compared =>
        LET found == Labels(merge_results.unique_items.rows)
        IN /\ compare_results.found_report.rows =
                  SelectSeq(StockRows, LAMBDA r : r["Label No"] \in found)
           /\ compare_results.missing_report.rows =
                  SelectSeq(StockRows, LAMBDA r : r["Label No"] \notin found)

\* C2 case: two different stock rows share a found label; both are in the
\* found report and none is in the missing report.
C2_Witness ==
    /\ Compared
    /\ Len(compare_results.missing_report.rows) = 0
    /\ Len(compare_results.found_report.rows) = 2
    /\ compare_results.found_report.rows[1]["Label No"]
           = compare_results.found_report.rows[2]["Label No"]
    /\ compare_results.found_report.rows[1] # compare_results.found_report.rows[2]

\* Index of the first row of rows with this label.
FirstIndex(rows, label) ==
    CHOOSE i \in 1..Len(rows) :
        /\ rows[i]["Label No"] = label
        /\ \A j \in 1..(i - 1) : rows[j]["Label No"] # label

\* C3: unique_items is the first occurrence of each label of combined, in
\* combined order: its labels are distinct, every label of combined is in
\* it, and a label scanned in both reports keeps its barcode-report row.
C3_UniqueKeepsFirstOccurrence ==
    merge_results # Unset =>
        LET c == merge_results.combined_all.rows
            u == merge_results.unique_items.rows
        IN /\ \A i, j \in 1..Len(u) : i # j => u[i]["Label No"] # u[j]["Label No"]
           /\ Labels(c) = Labels(u)
           /\ \A k \in 1..Len(u) : u[k] = c[FirstIndex(c, u[k]["Label No"])]
           /\ \A i, j \in 1..Len(u) :
                  i < j => FirstIndex(c, u[i]["Label No"]) < FirstIndex(c, u[j]["Label No"])
           /\ \A k \in 1..Len(u) :
                  (\E i \in 1..Len(c) : /\ c[i]["Label No"] = u[k]["Label No"]
                                        /\ c[i]["Source"] = "Old Barcode Report")
                  => u[k]["Source"] = "Old Barcode Report"

\* C3 case: a label scanned in both reports, next to another label.
C3_Witness ==
    /\ merge_results # Unset
    /\ Len(merge_results.unique_items.rows) >= 2
    /\ \E i, j \in 1..Len(merge_results.combined_all.rows) :
          LET c == merge_results.combined_all.rows
          IN /\ c[i]["Label No"] = c[j]["Label No"]
             /\ c[i]["Source"] = "Old Barcode Report"
             /\ c[j]["Source"] = "Label Number Report"

\* C4: num_duplicates is the number of distinct labels that occur at least
\* twice in combined.
C4_NumDuplicatesCountsLabels ==
    merge_results # Unset =>
        LET c == merge_results.combined_all.rows
        IN merge_results.num_duplicates =
               Cardinality({l \in Labels(c) : CountRows(c, "Label No", l) >= 2})

\* C4 case: one label repeated inside a single report and another label
\* scanned in both reports.
C4_Witness ==
    /\ merge_results # Unset
    /\ merge_results.num_duplicates = 2
    /\ LET c == merge_results.combined_all.rows
       IN /\ \E l \in Labels(c) :
                 /\ CountRows(c, "Label No", l) >= 2
                 /\ Cardinality({c[i]["Source"] : i \in {k \in 1..Len(c) :
                                     c[k]["Label No"] = l}}) = 1
          /\ \E l \in Labels(c) :
                 Cardinality({c[i]["Source"] : i \in {k \in 1..Len(c) :
                                 c[k]["Label No"] = l}}) = 2

\* C5: clean_report_file keeps, in input order, the rows whose 'Stock Menu'
\* is exactly 'Found' and whose 'Label No' is neither null nor '', and no
\* other row.
C5_CleanKeepsFoundLabelledRows ==
    cleaned # Unset =>
        LET kept == SelectSeq(barcode_file.sheet.rows,
                              LAMBDA r : /\ r["Stock Menu"] = "Found"
                                         /\ r["Label No"] # NaN
                                         /\ r["Label No"] # "")
        IN cleaned.rows = [i \in 1..Len(kept) |-> ProjectRow(kept[i], columns_to_keep)]

\* C5 case: a row kept, a row dropped for its status spelling and a 'Found'
\* row dropped for its empty label.
C5_Witness ==
    /\ cleaned # Unset
    /\ Len(cleaned.rows) = 1
    /\ LET rows == barcode_file.sheet.rows
       IN /\ \E i \in 1..Len(rows) :
                 rows[i]["Stock Menu"] \in {"found", "Found "} /\ rows[i]["Label No"] = "L1"
          /\ \E i \in 1..Len(rows) :
                 rows[i]["Stock Menu"] = "Found" /\ rows[i]["Label No"] = ""

Clicked == validation_results # Unset

StockOk ==
    stock_file.readable /\ validate_stock_file(stock_file.sheet).is_valid

ReportOk(file) == file.readable /\ validate_report_file(file.sheet).is_valid

\* C6: load_and_validate_files reports success exactly when all three
\* files were read and passed their validators, and process_audit_data is
\* called in a run only after that success.
C6_ProcessingOnlyAfterValidation ==
    /\ Clicked => (validation_results.success
                      <=> StockOk /\ ReportOk(barcode_file) /\ ReportOk(label_file))
    /\ (processing_results # Unset \/ merge_results # Unset)
           => Clicked /\ validation_results.success

\* C6 case: a run in which process_audit_data was called.
C6_Witness ==
    /\ Clicked
    /\ validation_results.success
    /\ processing_results # Unset

HasError(prefix) ==
    \E i \in 1..Len(validation_results.errors) :
        validation_results.errors[i].prefix = prefix

\* C7: for every file that fails, unreadable or rejected by its validator,
\* the errors returned by load_and_validate_files hold an entry for it.
C7_EveryFailureReported ==
    Clicked =>
        /\ ~StockOk => HasError("Stock file error")
        /\ ~ReportOk(barcode_file) => HasError("Barcode report error")
        /\ ~ReportOk(label_file) => HasError("Label report error")

EmptyOrNull(cell) == cell = NaN \/ cell = ""

\* A table that was read, is not empty and has the columns its validator
\* asks for.
WellFormed(file, required) ==
    /\ file.readable
    /\ ~IsEmpty(file.sheet)
    /\ required \subseteq file.sheet.columns

NoFoundLabel(file) ==
    \A i \in 1..Len(file.sheet.rows) :
        LET r == file.sheet.rows[i]
        IN r["Stock Menu"] # "Found" \/ EmptyOrNull(r["Label No"])

\* C8: a report with no 'Found' row is rejected, a table whose 'Label No'
\* is empty or null in every row is rejected, and so a report that
\* contributes no found label is rejected before reconciliation runs.
C8_NoUsableRowsRejected ==
    Clicked =>
        /\ \A file \in {barcode_file, label_file} :
              WellFormed(file, ReportColumns) =>
                 /\ (\A i \in 1..Len(file.sheet.rows) :
                        file.sheet.rows[i]["Stock Menu"] # "Found")
                    => ~ReportOk(file)
                 /\ (\A i \in 1..Len(file.sheet.rows) :
                        EmptyOrNull(file.sheet.rows[i]["Label No"]))
                    => ~ReportOk(file)
                 /\ NoFoundLabel(file) => ~ReportOk(file)
        /\ WellFormed(stock_file, StockColumns) =>
              ((\A i \in 1..Len(stock_file.sheet.rows) :
                   EmptyOrNull(stock_file.sheet.rows[i]["Label No"]))
               => ~StockOk)
        /\ processing_results # Unset =>
              ~NoFoundLabel(barcode_file) /\ ~NoFoundLabel(label_file)

Shown(widgets) == {i \in 1..Len(ui) : ui[i].widget \in widgets}

\* C9: when process_audit_data meets an exception and returns no bundle,
\* the run shows one diagnostic, is not recorded as complete, and no
\* report is displayed or offered for download.
C9_FaultLeavesNoResults ==
    processing_results = None =>
        /\ Cardinality(Shown({"error", "exception"})) = 1
        /\ ~processing_complete(session_state)
        /\ Shown({"dataframe", "download_button"}) = {}

\* Rows of combined whose label occurs at least twice in combined.
RepeatedRows(c) == SelectSeq(c, LAMBDA r : CountRows(c, "Label No", r["Label No"]) >= 2)

Ascending(rows) ==
    \A i, j \in 1..Len(rows) :
        i < j => Rank(rows[i]["Label No"]) <= Rank(rows[j]["Label No"])

\* The rows of each label stand in duplicates in their order in combined.
TiesInOrder(c, d) ==
    \A l \in Labels(c) \cup Labels(d) :
        SelectSeq(d, LAMBDA r : r["Label No"] = l)
        = SelectSeq(RepeatedRows(c), LAMBDA r : r["Label No"] = l)

\* C10 as stated: duplicates holds the repeated rows of combined ascending
\* by label, rows with the same label in their order in combined.
C10_DuplicatesStablySorted ==
    merge_results # Unset =>
        LET c == merge_results.combined_all.rows
            d == merge_results.duplicates.rows
        IN Ascending(d) /\ TiesInOrder(c, d)

\* C10 amended: duplicates holds the repeated rows of combined, each as
\* often as in combined, ascending by label; rows with the same label keep
\* their order in combined when duplicates has no more rows than
\* sort_values sorts by insertion.
C10_DuplicatesSortedByLabel ==
    merge_results # Unset =>
        LET c == merge_results.combined_all.rows
            d == merge_results.duplicates.rows
            times(rows, x) == Cardinality({i \in 1..Len(rows) : rows[i] = x})
        IN /\ Ascending(d)
           /\ Len(d) = Len(RepeatedRows(c))
           /\ \A i \in 1..Len(d) : times(d, d[i]) = times(RepeatedRows(c), d[i])
           /\ Len(d) <= SmallQuicksort + 1 => TiesInOrder(c, d)

\* C10 case: a duplicates table that sort_values partitions, with two
\* repeated labels that combined does not hold in ascending order, and
\* rows of one label left in another order than in combined.
C10_Witness ==
    /\ merge_results # Unset
    /\ merge_results.num_duplicates = 2
    /\ ~Ascending(RepeatedRows(merge_results.combined_all.rows))
    /\ Len(merge_results.duplicates.rows) > SmallQuicksort + 1
    /\ ~TiesInOrder(merge_results.combined_all.rows, merge_results.duplicates.rows)

(***************************************************************************)
(* Properties of the validators' failures                                  *)
(***************************************************************************)
\* The required columns a read, non-empty table lacks.
Absent(file, required) ==
    IF file.readable /\ ~IsEmpty(file.sheet)
    THEN required \ file.sheet.columns
    ELSE {}

\* The columns a validator's message names.
Named(message) ==
    {message.cols[i] : i \in 1..Len(message.cols)}
        \cup (IF message.text = "Missing required column: 'Label No'"
              THEN {"Label No"} ELSE {})

\* Every entry of results['errors'] for this file names all of absent.
NamesAll(prefix, absent) ==
    \A i \in 1..Len(validation_results.errors) :
        validation_results.errors[i].prefix = prefix
            => absent \subseteq Named(validation_results.errors[i].message)

\* C11: the failure of a validator names every required column the table
\* lacks: all of them for a stock table that lacks 'Label No' together
\* with other required columns, and all of them for a report table that
\* lacks several.
C11_FailureNamesEveryAbsentColumn ==
    Clicked =>
        /\ NamesAll("Stock file error", Absent(stock_file, StockColumns))
        /\ NamesAll("Barcode report error", Absent(barcode_file, ReportColumns))
        /\ NamesAll("Label report error", Absent(label_file, ReportColumns))

(***************************************************************************)
(* Properties of the summary                                               *)
(***************************************************************************)
\* C12: in every run that completed with a bundle, the missing count of
\* the summary is total stock minus total scanned, as the calculation line
\* of the summary says.
C12_MissingIsStockMinusScanned ==
    (processing_results # Unset /\ processing_results # None) =>
        processing_results.stats.missing
            = processing_results.stats.total_stock
              - processing_results.stats.total_scanned

\* The sources of the rows of a table that carry this label.
SourcesOf(rows, label) ==
    {rows[i]["Source"] : i \in {k \in 1..Len(rows) : rows[k]["Label No"] = label}}

\* C13: every label of the duplicates table of merge_audit_reports has a
\* row from the Old Barcode Report and a row from the Label Number Report.
C13_DuplicatesScannedInBothReports ==
    merge_results # Unset =>
        \A l \in Labels(merge_results.duplicates.rows) :
            SourcesOf(merge_results.duplicates.rows, l)
                = {"Old Barcode Report", "Label Number Report"}

====
